---- MODULE Spec2Model ----
(***************************************************************************)
(* Model of the startup callback of src-tauri/src/lib.rs: the closure      *)
(* handed to tauri::Builder::setup looks up the "main" window, asks for    *)
(* its current monitor, reads the monitor geometry and the window's outer  *)
(* size, computes the bottom-left position in i32 arithmetic and passes it *)
(* to set_position, discarding the result, then returns Ok(()).            *)
(*                                                                         *)
(* i32 values are ordinary integers in I32Min..I32Max.  u32 values and     *)
(* the mathematical (unbounded) values the properties speak about are      *)
(* kept as two 16-bit limbs [hi, lo] standing for hi * 65536 + lo, so      *)
(* that every intermediate value stays inside the checker's integers.      *)
(***************************************************************************)
EXTENDS Integers, Sequences, FiniteSets, TLC

VARIABLES pc, overflow_checks, window, monitor, screen_size, screen_pos,
          os_result, window_size, x, y, calls, sp_arg, sp_result, win_pos,
          ret

vars == <<pc, overflow_checks, window, monitor, screen_size, screen_pos,
          os_result, window_size, x, y, calls, sp_arg, sp_result, win_pos,
          ret>>

(***************************************************************************)
(* Bounds of the model                                                     *)
(***************************************************************************)
\* how many neighbours on each side of a boundary value the inputs include
Spread == 1

(***************************************************************************)
(* Integer representation                                                  *)
(***************************************************************************)
I32Max == 2147483647
I32Min == -I32Max - 1
Limb == 65536
HalfLimb == 32768

\* the mathematical value of an i32, as limbs
W(n) == [hi |-> n \div Limb, lo |-> n % Limb]

\* a u32 given by its (small) value
U32(n) == [hi |-> n \div Limb, lo |-> n % Limb]

\* the u32 whose bit pattern is that of the i32 b (u32::MAX is U32Bits(-1))
U32Bits(b) == [hi |-> (b \div Limb) % Limb, lo |-> b % Limb]

\* exact addition and subtraction on limbs
WAdd(a, b) ==
    LET s == a.lo + b.lo
    IN  [hi |-> a.hi + b.hi + (s \div Limb), lo |-> s % Limb]

WSub(a, b) ==
    LET d == a.lo - b.lo
    IN  [hi |-> a.hi - b.hi + (d \div Limb), lo |-> d % Limb]

WLess(a, b) == a.hi < b.hi \/ (a.hi = b.hi /\ a.lo < b.lo)

InI32(w) == w.hi >= -HalfLimb /\ w.hi < HalfLimb

\* the low 32 bits of a value, read as an i32
WrapI32(w) == (((w.hi + HalfLimb) % Limb) - HalfLimb) * Limb + w.lo

\* `u as i32`: reinterprets the bits, never panics
AsI32(u) == WrapI32(u)

\* i32 `+` and `-`: the wrapped result and whether the exact one overflowed
I32Add(a, b) ==
    LET r == WAdd(W(a), W(b))
    IN  [overflow |-> ~InI32(r), val |-> WrapI32(r)]

I32Sub(a, b) ==
    LET r == WSub(W(a), W(b))
    IN  [overflow |-> ~InI32(r), val |-> WrapI32(r)]

(***************************************************************************)
(* The position computation (lines 17-18)                                  *)
(***************************************************************************)
MarginX == 20
MarginY == 24

ComputeX(pos) == I32Add(pos.x, MarginX)

\* a plausible slip: the bottom padding is added instead of subtracted
ComputeY_PaddingAdded(pos, ssize, wsize) ==
    LET t1 == I32Add(pos.y, AsI32(ssize.height))
        t2 == I32Sub(t1.val, AsI32(wsize.height))
        t3 == I32Add(t2.val, MarginY)
    IN  [overflow |-> t1.overflow \/ t2.overflow \/ t3.overflow,
         val |-> t3.val]

ComputeY(pos, ssize, wsize) ==
    LET t1 == I32Add(pos.y, AsI32(ssize.height))
        t2 == I32Sub(t1.val, AsI32(wsize.height))
        t3 == I32Sub(t2.val, MarginY)
    IN  [overflow |-> t1.overflow \/ t2.overflow \/ t3.overflow,
         val |-> t3.val]

\* what the two let-bindings produce for a build with or without
\* overflow checks: a panic, or the (possibly wrapped) point
Position(checks, pos, ssize, wsize) ==
    LET xr == ComputeX(pos)
        yr == ComputeY(pos, ssize, wsize)
    IN  [panic |-> checks /\ (xr.overflow \/ yr.overflow),
         x |-> xr.val, y |-> yr.val]

(***************************************************************************)
(* Inputs: what the framework can answer                                   *)
(***************************************************************************)
Near(a) == {a + k : k \in (-Spread)..Spread}

OriginXs == {-1920, 0} \cup Near(I32Max - MarginX)
OriginYs == {0, I32Min + 100} \cup Near(I32Max - 1080)
ScreenWidths == {U32(1920), U32(2560)}
ScreenHeights == {U32(0), U32(1080), U32Bits(-1)}
WindowWidths == {U32(300)}
WindowHeights == {U32(0), U32(200), U32(1200), U32Bits(-100)}

Positions == [x : OriginXs, y : OriginYs]
ScreenSizes == [width : ScreenWidths, height : ScreenHeights]
WindowSizes == [width : WindowWidths, height : WindowHeights]

\* PhysicalSize::default()
DefaultSize == [width |-> U32(0), height |-> U32(0)]

Unset == [x |-> 0, y |-> 0]

(***************************************************************************)
(* State after construction: the callback is about to run                  *)
(***************************************************************************)
Init ==
    /\ pc = "get_window"
    /\ overflow_checks \in BOOLEAN
    /\ window = "unknown"
    /\ monitor = "unknown"
    /\ screen_size = DefaultSize
    /\ screen_pos = Unset
    /\ os_result = "none"
    /\ window_size = DefaultSize
    /\ x = 0
    /\ y = 0
    /\ calls = <<>>
    /\ sp_arg = Unset
    /\ sp_result = "none"
    /\ win_pos = "initial"
    /\ ret = "none"

(***************************************************************************)
(* Steps of the callback                                                   *)
(***************************************************************************)
\* a slip: the lookup is unwrapped instead of matched
GetWebviewWindow_Unwrap ==
    /\ pc = "get_window"
    /\ \E r \in {"Some", "None"} :
        /\ window' = r
        /\ pc' = IF r = "Some" THEN "current_monitor" ELSE "panicked"
    /\ calls' = Append(calls, "get_webview_window")
    /\ UNCHANGED <<overflow_checks, monitor, screen_size, screen_pos,
                   os_result, window_size, x, y, sp_arg, sp_result, win_pos, ret>>

\* line 10: if let Some(window) = app.get_webview_window("main")
GetWebviewWindow ==
    /\ pc = "get_window"
    /\ \E r \in {"Some", "None"} :
        /\ window' = r
        /\ pc' = IF r = "Some" THEN "current_monitor" ELSE "return"
    /\ calls' = Append(calls, "get_webview_window")
    /\ UNCHANGED <<overflow_checks, monitor, screen_size, screen_pos,
                   os_result, window_size, x, y, sp_arg, sp_result, win_pos, ret>>

\* lines 11-13: window.current_monitor().ok().flatten(), then the
\* monitor's size() and position()
CurrentMonitor ==
    /\ pc = "current_monitor"
    /\ \/ /\ \E r \in {"Err", "None"} : monitor' = r
          /\ pc' = "return"
          /\ UNCHANGED <<screen_size, screen_pos>>
       \/ /\ monitor' = "Some"
          /\ \E s \in ScreenSizes, p \in Positions :
                /\ screen_size' = s
                /\ screen_pos' = p
          /\ pc' = "outer_size"
    /\ calls' = Append(calls, "current_monitor")
    /\ UNCHANGED <<overflow_checks, window, os_result, window_size, x, y, sp_arg,
                   sp_result, win_pos, ret>>

\* line 14: window.outer_size().unwrap_or_default()
OuterSize ==
    /\ pc = "outer_size"
    /\ \/ /\ os_result' = "Ok"
          /\ \E s \in WindowSizes : window_size' = s
       \/ /\ os_result' = "Err"
          /\ window_size' = DefaultSize
    /\ calls' = Append(calls, "outer_size")
    /\ pc' = "compute"
    /\ UNCHANGED <<overflow_checks, window, monitor, screen_size,
                   screen_pos, x, y, sp_arg, sp_result, win_pos, ret>>

\* lines 17-18: let x = ...; let y = ...;
Compute ==
    /\ pc = "compute"
    /\ LET r == Position(overflow_checks, screen_pos, screen_size,
                         window_size)
       IN  IF r.panic
           THEN /\ pc' = "panicked"
                /\ UNCHANGED <<x, y>>
           ELSE /\ pc' = "set_position"
                /\ x' = r.x
                /\ y' = r.y
    /\ UNCHANGED <<overflow_checks, window, monitor, screen_size,
                   screen_pos, os_result, window_size, calls, sp_arg, sp_result,
                   win_pos, ret>>

\* a slip: the error of set_position is propagated with `?`
SetPosition_Propagate ==
    /\ pc = "set_position"
    /\ calls' = Append(calls, "set_position")
    /\ sp_arg' = [x |-> x, y |-> y]
    /\ \E r \in {"Ok", "Err"} :
        /\ sp_result' = r
        /\ win_pos' = IF r = "Ok" THEN "moved" ELSE win_pos
        /\ IF r = "Ok"
           THEN pc' = "return" /\ ret' = ret
           ELSE pc' = "done" /\ ret' = "Err"
    /\ UNCHANGED <<overflow_checks, window, monitor, screen_size,
                   screen_pos, os_result, window_size, x, y>>

\* line 20: let _ = window.set_position(PhysicalPosition::new(x, y));
SetPosition ==
    /\ pc = "set_position"
    /\ calls' = Append(calls, "set_position")
    /\ sp_arg' = [x |-> x, y |-> y]
    /\ \E r \in {"Ok", "Err"} :
        /\ sp_result' = r
        /\ win_pos' = IF r = "Ok" THEN "moved" ELSE win_pos
    /\ pc' = "return"
    /\ UNCHANGED <<overflow_checks, window, monitor, screen_size,
                   screen_pos, os_result, window_size, x, y, ret>>

\* line 23: Ok(())
ReturnOk ==
    /\ pc = "return"
    /\ ret' = "Ok"
    /\ pc' = "done"
    /\ UNCHANGED <<overflow_checks, window, monitor, screen_size,
                   screen_pos, os_result, window_size, x, y, calls, sp_arg,
                   sp_result, win_pos>>

Next ==
    \/ GetWebviewWindow
    \/ CurrentMonitor
    \/ OuterSize
    \/ Compute
    \/ SetPosition
    \/ ReturnOk

Spec == Init /\ [][Next]_vars

(***************************************************************************)
(* Vocabulary of the properties                                            *)
(***************************************************************************)
Count(s, e) == Cardinality({i \in 1..Len(s) : s[i] = e})

\* the two let-bindings have been evaluated without a panic
Computed == pc \in {"set_position", "return", "done"} /\ monitor = "Some"

\* set_position has been called
Positioned == sp_result # "none"

\* the callback is over, by returning or by unwinding
Terminated == pc \in {"done", "panicked"}

\* the mathematical values of the specification
MathX == WAdd(W(screen_pos.x), W(MarginX))
MathY == WSub(WSub(WAdd(W(screen_pos.y), screen_size.height),
                   window_size.height), W(MarginY))

TypeOK ==
    /\ pc \in {"get_window", "current_monitor", "outer_size", "compute",
               "set_position", "return", "done", "panicked"}
    /\ x \in I32Min..I32Max
    /\ y \in I32Min..I32Max
    /\ ret \in {"none", "Ok", "Err"}
    /\ os_result \in {"none", "Ok", "Err"}

(***************************************************************************)
(* Properties                                                              *)
(***************************************************************************)
Example(ox, wh) ==
    /\ screen_pos = [x |-> ox, y |-> 0]
    /\ screen_size = [width |-> U32(1920), height |-> U32(1080)]
    /\ window_size = [width |-> U32(300), height |-> U32(wh)]

\* C1: bottom alignment -- whenever a position has been computed, the
\* window's bottom edge (y + window height) plus the 24 pixel margin equals
\* the display's bottom edge (display origin y + display height), as
\* mathematical integers.
C1_BottomAlignment ==
    Computed =>
        WAdd(WAdd(W(y), window_size.height), W(MarginY))
            = WAdd(W(screen_pos.y), screen_size.height)

\* C2: left alignment -- whenever a position has been computed, x equals
\* the display origin's x plus the 20 pixel margin, as mathematical
\* integers, whatever the sizes are.
C2_LeftAlignment == Computed => W(x) = MathX

\* C3: default margins -- a 1920x1080 display with a 300x200 window is
\* positioned at (20, 856) when its origin is (0,0) and at (-1900, 856)
\* when its origin is (-1920, 0), and never panics.
C3_DefaultMargins ==
    /\ (Example(0, 200) \/ Example(-1920, 200)) => pc # "panicked"
    /\ (Computed /\ Example(0, 200)) => (x = 20 /\ y = 856)
    /\ (Computed /\ Example(-1920, 200)) => (x = -1900 /\ y = 856)
    /\ (Positioned /\ Example(0, 200)) => sp_arg = [x |-> 20, y |-> 856]
    /\ (Positioned /\ Example(-1920, 200))
            => sp_arg = [x |-> -1900, y |-> 856]

C3_Witness ==
    /\ pc = "done"
    /\ Positioned
    /\ Example(-1920, 200)
    /\ sp_arg = [x |-> -1900, y |-> 856]

\* C4: totality -- the computation never panics, and the point it yields
\* equals the mathematical values origin.x + 20 and
\* origin.y + display height - window height - 24 (no overflow, no wrap
\* from the casts).
C4_Total ==
    /\ pc # "panicked"
    /\ Computed => (W(x) = MathX /\ W(y) = MathY)

\* C5: translation equivariance -- for every other display origin, with
\* the sizes unchanged, the computation yields the computed point shifted
\* by exactly the difference of the two origins.
C5_Translation ==
    Computed =>
        \A p \in Positions :
            LET r == Position(overflow_checks, p, screen_size, window_size)
                dx == WSub(W(p.x), W(screen_pos.x))
                dy == WSub(W(p.y), W(screen_pos.y))
            IN  /\ ~r.panic
                /\ W(r.x) = WAdd(W(x), dx)
                /\ W(r.y) = WAdd(W(y), dy)

\* C6: no clamping -- when the window is higher than the display, the
\* computed y lies above the display's top edge (height 1080 at y = 0 with
\* a window of height 1200 gives -144), and that point is the one passed to
\* set_position.
C6_NoClamping ==
    /\ (Computed /\ WLess(screen_size.height, window_size.height))
            => WLess(W(y), W(screen_pos.y))
    /\ (Computed /\ Example(0, 1200)) => y = -144
    /\ Positioned => sp_arg = [x |-> x, y |-> y]

\* C7: skip silently on absence -- when the window lookup returns nothing,
\* or the monitor query fails or returns no monitor, set_position is never
\* called, the window is not moved, nothing fails, and the callback returns
\* Ok.
C7_SkipOnAbsence ==
    (window = "None" \/ monitor \in {"Err", "None"}) =>
        /\ Count(calls, "set_position") = 0
        /\ sp_result = "none"
        /\ win_pos = "initial"
        /\ pc \in {"return", "done"}
        /\ ret # "Err"
        /\ pc = "done" => ret = "Ok"

C7_Witness ==
    /\ pc = "done"
    /\ window = "None"
    /\ calls = <<"get_webview_window">>
    /\ ret = "Ok"

\* C8: best effort -- once set_position has been called, whether it
\* succeeded or failed, it has been called exactly once, the callback goes
\* straight to its return, and it returns Ok.
C8_BestEffort ==
    Positioned =>
        /\ Count(calls, "set_position") = 1
        /\ pc \in {"return", "done"}
        /\ ret # "Err"
        /\ pc = "done" => ret = "Ok"

C8_Witness ==
    /\ pc = "done"
    /\ sp_result = "Err"
    /\ win_pos = "initial"
    /\ Count(calls, "set_position") = 1
    /\ ret = "Ok"

\* C9: zero-size fallback -- when the outer size query fails, the window
\* size used is 0x0, the repositioning is not skipped, and the point passed
\* is (origin.x + 20, origin.y + display height - 24) as mathematical
\* integers.
C9_ZeroSizeFallback ==
    os_result = "Err" =>
        /\ window_size = DefaultSize
        /\ pc # "panicked"
        /\ pc = "done" => Positioned
        /\ Positioned =>
            /\ W(sp_arg.x) = MathX
            /\ W(sp_arg.y) = WSub(WAdd(W(screen_pos.y), screen_size.height),
                                  W(MarginY))

\* C10: set_position is called at most once, only after the window lookup,
\* the monitor query and the outer size query in that order, exactly once
\* in every execution that obtained both the window and a monitor, and
\* with the point computed from that monitor's position and size.
C10_CallOrder ==
    /\ Count(calls, "set_position") <= 1
    /\ Count(calls, "set_position") = 1 =>
            calls = <<"get_webview_window", "current_monitor",
                      "outer_size", "set_position">>
    /\ (Terminated /\ window = "Some" /\ monitor = "Some")
            => Count(calls, "set_position") = 1
    /\ Positioned =>
            LET r == Position(overflow_checks, screen_pos, screen_size,
                              window_size)
            IN  sp_arg = [x |-> r.x, y |-> r.y]

====
